---- MODULE Spec2Model ----
(***************************************************************************)
(* Model of stellar-js: the filtering pipeline (FilteringPipeline), the    *)
(* database handle it records through (getDatabase) and the collector      *)
(* that drives it (RepositoryCollector), and the tier manager that         *)
(* rebalances the collection targets (AdaptiveTierManager), and the        *)
(* filter stages (PopularityFilter, ActivityFilter, QualityFilter,         *)
(* FinalSelectionFilter).                                                  *)
(***************************************************************************)
EXTENDS Integers, Sequences, FiniteSets, TLC

VARIABLES
    stages,     \* FilteringPipeline.stages: sequence of stage objects
    db,         \* repository/database.ts module variable db: "null" or "open"
    runState,   \* pipeline.execute: "none", "loop", "returned" or "threw"
    idx,        \* position in this.stages of the next loop iteration
    repo,       \* repository.id of the candidate of the current/last run
    results,    \* the local array results of execute (summary.stages on return)
    evals,      \* log of stage.evaluate calls of the current/last run
    sink,       \* log of recordStageResult calls of the current/last run
    coll,       \* RepositoryCollector.collectRepositories progress
    tiers,      \* the caller's TierConfig[]: the tier objects, in array order
    collected,  \* executeTierCollection: how many tiers its loop has been through
    adjust,     \* the last adjustTiers call and the AdaptiveTierResult it returned
    verdict,    \* what the last validateQualityStandards call returned
    estimate,   \* the last estimateAvailableCount call: its tier and result
    candidate,  \* the Repository a stage is asked to evaluate
    criteria,   \* the criteria record the stage was constructed with
    assessments,\* the QualityAssessment[] FinalSelectionFilter was constructed with
    outcome,    \* the FilterResult of the last direct evaluate call
    now,        \* the system clock read by new Date(), in half days
    store,      \* the repositories table: the row of each id, {} when absent
    handed      \* the last processBatch iteration: its githubRepo and the
                \* Repository it passed to pipeline.execute

vars == <<stages, db, runState, idx, repo, results, evals, sink, coll,
          tiers, collected, adjust, verdict, estimate,
          candidate, criteria, assessments, outcome, now, store, handed>>

pipeVars == <<stages, db, runState, idx, repo, results, evals, sink, coll>>

tierVars == <<tiers, collected, adjust, verdict, estimate>>

stageVars == <<candidate, criteria, assessments, outcome, now, store, handed>>

(***************************************************************************)
(* Bounds of the model.                                                    *)
(***************************************************************************)
MaxAdded == 4
MaxSetups == 2
MaxRepos == 2
MaxInsertFaults == 1
MaxAdjusts == 2
MaxTiers == 2
MaxClock == 6

RepoIds == 1..MaxRepos

(***************************************************************************)
(* The four concrete stages: id and name as the classes declare them.      *)
(***************************************************************************)
StageIds == 1..4

StageName(id) ==
    CASE id = 1 -> "basic_popularity"
      [] id = 2 -> "activity_filter"
      [] id = 3 -> "quality_filter"
      [] id = 4 -> "final_selection"

\* number of stage objects with this id already held by the pipeline
CountId(seq, id) == Cardinality({i \in 1..Len(seq) : seq[i].id = id})

\* new XFilter(criteria): a fresh object, told from the earlier objects of
\* its class by its ordinal obj
NewStage(seq, id) == [id |-> id, name |-> StageName(id), obj |-> CountId(seq, id) + 1]

\* mutant: addStage pushes without sorting
PushUnsorted(seq, stage) == Append(seq, stage)

\* Array.prototype.sort with (a, b) => a.id - b.id after push: the sort is
\* stable, so the pushed stage lands behind every stage with id <= its id
SortedInsert(seq, stage) ==
    LET k == Cardinality({i \in 1..Len(seq) : seq[i].id <= stage.id})
    IN  SubSeq(seq, 1, k) \o <<stage>> \o SubSeq(seq, k + 1, Len(seq))

\* this.stages.indexOf(stage): first position holding that very object
IndexOf(seq, stage) ==
    IF \E i \in 1..Len(seq) : seq[i] = stage
    THEN CHOOSE i \in 1..Len(seq) :
            seq[i] = stage /\ \A j \in 1..(i - 1) : seq[j] # stage
    ELSE 0

(***************************************************************************)
(* What a stage's evaluate can do: return a FilterResult or throw.         *)
(***************************************************************************)
\* scores in thousandths; a failing result may carry a zero or a nonzero score
PassScores == {700}
FailScores == {0, 700}

ThrownValues == {[isError |-> TRUE, message |-> "stage error"],
                 [isError |-> FALSE, message |-> ""]}

DbOpenError == [isError |-> TRUE, message |-> "cannot open database"]

Outcomes ==
    [kind : {"result"}, passed : {TRUE}, score : PassScores,
     details : {[checks |-> "evaluated"]}]
    \cup [kind : {"result"}, passed : {FALSE}, score : FailScores,
          details : {[checks |-> "evaluated"]}]
    \cup [kind : {"raise"}, error : ThrownValues]

\* error instanceof Error ? error.message : 'Unknown error'
ErrorMessage(error) == IF error.isError THEN error.message ELSE "Unknown error"

(***************************************************************************)
(* repository/database.ts                                                  *)
(***************************************************************************)
\* getDatabase(): returns the cached handle, or opens the database file;
\* opening can fail (openFails), and then the call throws and db stays null
GetDatabase(dbNow, openFails) ==
    IF dbNow = "open" THEN [threw |-> FALSE, db |-> "open"]
    ELSE IF openFails THEN [threw |-> TRUE, db |-> "null"]
    ELSE [threw |-> FALSE, db |-> "open"]

(***************************************************************************)
(* FilteringPipeline                                                       *)
(***************************************************************************)
NoStatus == "undefined"

\* status || (result.passed ? 'passed' : 'failed')
StatusValue(result, status) ==
    IF status # NoStatus THEN status
    ELSE IF result.passed THEN "passed" ELSE "failed"

\* recordStageResult: getDatabase() is called before the try block, so its
\* exception leaves the method; an insert failure is caught and logged.
\* call.fault tells how the call ended.
RecordStageResult(dbNow, openFails, repositoryId, stageId, result, status, insertFails) ==
    LET g == GetDatabase(dbNow, openFails)
    IN  [threw |-> g.threw,
         db    |-> g.db,
         call  |-> [repository_id |-> repositoryId,
                    stage_id      |-> stageId,
                    status        |-> StatusValue(result, status),
                    score         |-> result.score,
                    details       |-> result.details,
                    fault         |-> IF g.threw THEN "handle"
                                      ELSE IF insertFails THEN "insert"
                                      ELSE "none"]]

\* the result object built for a skipped stage's record (lines 59-63)
SkippedRecord(stage) ==
    [passed |-> FALSE, score |-> 0,
     details |-> [error |-> "", skipped |-> TRUE,
                  reason |-> <<"Previous stage", stage.name, "failed">>]]

\* the entry pushed to results for a skipped stage (lines 67-72)
SkippedResult(remainingStage) ==
    [stage |-> remainingStage.name, passed |-> FALSE, score |-> 0,
     details |-> [error |-> "", skipped |-> TRUE]]

\* the entry pushed to results by the catch block (lines 79-84)
ErrorResult(stage, error) ==
    [stage |-> stage.name, passed |-> FALSE, score |-> 0,
     details |-> [error |-> ErrorMessage(error)]]

\* the result object recorded by the catch block (lines 92-96)
ErrorRecord(error) ==
    [passed |-> FALSE, score |-> 0, details |-> [error |-> ErrorMessage(error)]]

\* lines 34-39
StageResult(stage, result) ==
    [stage |-> stage.name, passed |-> result.passed, score |-> result.score,
     details |-> result.details]

\* mutant: a failed stage no longer stops the pipeline
StopsPipelineNever(stage, result) == FALSE

\* the condition of line 51
StopsPipeline(stage, result) == ~result.passed /\ stage.name # "final_selection"

\* stages.slice(stages.indexOf(stage) + 1)
RemainingStages(seq, stage) == SubSeq(seq, IndexOf(seq, stage) + 1, Len(seq))

InsertFaults(calls) == Cardinality({i \in 1..Len(calls) : calls[i].fault = "insert"})

\* One iteration of the for loop of execute (lines 28-102) on stages[idx].
\*   out        what stage.evaluate does
\*   openFails  how many of this iteration's getDatabase calls fail to open
\*   insFail    the positions whose insert fails
\* Yields the new db, results, sink calls and how the iteration leaves the
\* loop: "next", "break" or "throw".
Iteration(seq, i, dbNow, repositoryId, out, openFails, insFail) ==
    LET stage == seq[i]
        caught(res, dbc, calls, error, fails) ==
            \* catch (error) { ... } of lines 76-101
            LET rec == RecordStageResult(dbc, fails, repositoryId, stage.id,
                                         ErrorRecord(error), "failed", i \in insFail)
            IN  [db      |-> rec.db,
                 results |-> Append(res, ErrorResult(stage, error)),
                 calls   |-> Append(calls, rec.call),
                 exit    |-> IF rec.threw THEN "throw" ELSE "break"]
    IN  IF out.kind = "raise"
        THEN caught(<<>>, dbNow, <<>>, out.error, openFails >= 1)
        ELSE
          LET rec == RecordStageResult(dbNow, openFails >= 1, repositoryId, stage.id,
                                       out, NoStatus, i \in insFail)
              pushed == <<StageResult(stage, out)>>
          IN  IF rec.threw
              THEN caught(pushed, rec.db, <<rec.call>>, DbOpenError, openFails >= 2)
              ELSE IF StopsPipeline(stage, out)
              THEN
                LET rem == RemainingStages(seq, stage)
                    from == IndexOf(seq, stage)
                    skip(k) == RecordStageResult(rec.db, FALSE, repositoryId, rem[k].id,
                                                 SkippedRecord(stage), "skipped",
                                                 (from + k) \in insFail)
                IN  [db      |-> rec.db,
                     results |-> pushed \o [k \in 1..Len(rem) |-> SkippedResult(rem[k])],
                     calls   |-> <<rec.call>> \o [k \in 1..Len(rem) |-> skip(k).call],
                     exit    |-> "break"]
              ELSE [db |-> rec.db, results |-> pushed, calls |-> <<rec.call>>,
                    exit |-> "next"]

NoRun ==
    /\ runState' = "none"
    /\ idx' = 0
    /\ repo' = 0
    /\ results' = <<>>
    /\ evals' = <<>>
    /\ sink' = <<>>

\* pipeline.addStage(new XFilter(criteria))
AddStage(id) ==
    /\ runState # "loop"
    /\ coll.status = "none"
    /\ Len(stages) < MaxAdded
    /\ stages' = SortedInsert(stages, NewStage(stages, id))
    /\ NoRun
    /\ UNCHANGED <<db, coll>>
    /\ UNCHANGED <<tierVars, stageVars>>

\* execute(repository) up to the loop: an empty pipeline returns at once
BeginExecute(repositoryId) ==
    /\ repo' = repositoryId
    /\ results' = <<>>
    /\ evals' = <<>>
    /\ sink' = <<>>
    /\ idx' = 1
    /\ runState' = IF Len(stages) = 0 THEN "returned" ELSE "loop"

ExecuteStart(repositoryId) ==
    /\ runState # "loop"
    /\ coll.status = "none"
    /\ BeginExecute(repositoryId)
    /\ UNCHANGED <<stages, db, coll>>
    /\ UNCHANGED <<tierVars, stageVars>>

\* one loop iteration, outs being what stage.evaluate can do; after the last one, or a break, execute returns the
\* summary {repository, stages: results}; an exception of the catch block's
\* own recordStageResult leaves execute
Step(outs) ==
    /\ runState = "loop"
    /\ \E out \in outs, openFails \in 0..2, insFail \in SUBSET (idx..Len(stages)) :
        /\ db = "open" => openFails = 0
        /\ LET it == Iteration(stages, idx, db, repo, out, openFails, insFail)
           IN  /\ InsertFaults(sink \o it.calls) <= MaxInsertFaults
               /\ Cardinality(insFail) = InsertFaults(it.calls)
               /\ db' = it.db
               /\ results' = results \o it.results
               /\ sink' = sink \o it.calls
               /\ evals' = Append(evals, [pos |-> idx, stage |-> stages[idx], out |-> out])
               /\ idx' = idx + 1
               /\ runState' = IF it.exit = "throw" THEN "threw"
                              ELSE IF it.exit = "break" \/ idx = Len(stages) THEN "returned"
                              ELSE "loop"
    /\ UNCHANGED <<stages, repo, coll>>
    /\ UNCHANGED <<tierVars, stageVars>>

\* the loop iteration of a pipeline whose stages can do anything a stage can
ExecuteStep == Step(Outcomes)

\* some other caller of getDatabase() (a script, a DatabaseInitializer)
OpenDatabase ==
    /\ runState # "loop"
    /\ coll.status = "none"
    /\ db = "null"
    /\ db' = "open"
    /\ NoRun
    /\ UNCHANGED <<stages, coll>>
    /\ UNCHANGED <<tierVars, stageVars>>

\* closeDatabase()
CloseDatabase ==
    /\ runState # "loop"
    /\ coll.status # "running"
    /\ db = "open"
    /\ db' = "null"
    /\ NoRun
    /\ UNCHANGED <<stages, coll>>
    /\ UNCHANGED <<tierVars, stageVars>>

(***************************************************************************)
(* RepositoryCollector                                                     *)
(***************************************************************************)
\* no collectRepositories call made yet (or its outcome dropped); row is the
\* status column of the call's collection_batches row, batchWriteFault
\* whether a write to that row failed
NoCollection ==
    [status |-> "none", githubRepos |-> <<>>, batchSize |-> 1, i |-> 0, j |-> 1,
     phase |-> "store", row |-> "none", processed |-> <<>>,
     batchWriteFault |-> FALSE]

\* mutant: a batch is left after its first githubRepo
AdvanceSkipping(c) == [c EXCEPT !.i = c.i + c.batchSize, !.j = 1]

\* githubRepos.slice(i, i + batchSize).length
BatchLen(c) ==
    IF c.i + c.batchSize <= Len(c.githubRepos) THEN c.batchSize
    ELSE Len(c.githubRepos) - c.i

\* the next githubRepo of processBatch's loop, or the next batch of the loop
\* of collectRepositories (i += batchSize)
Advance(c) ==
    IF c.j < BatchLen(c) THEN [c EXCEPT !.j = c.j + 1]
    ELSE [c EXCEPT !.i = c.i + c.batchSize, !.j = 1]

\* mutant: the candidate's exception leaves processBatch and fails the collection
FailureAborts(c) == [c EXCEPT !.status = "failed"]

\* the catch block of processBatch (lines 114-117): log, go on with the loop
AfterFailure(c) == Advance(c)

\* the entry the model keeps for a githubRepo processBatch went through
Processed(id, stored, linked, run) ==
    [id |-> id, stored |-> stored, linked |-> linked, run |-> run]

\* the three addStage calls of setupPipeline (lines 53-55)
AddConfiguredStages(seq) ==
    LET s1 == SortedInsert(seq, NewStage(seq, 1))
        s2 == SortedInsert(s1, NewStage(s1, 2))
    IN  SortedInsert(s2, NewStage(s2, 3))

\* setupPipeline(config): new DatabaseInitializer() obtains the handle,
\* initialize() writes the stage table; either can throw, and then no
\* stage is added
SetupPipeline ==
    /\ runState # "loop"
    /\ coll.status # "running"
    /\ Len(stages) + 3 <= 3 * MaxSetups
    /\ \E openFails \in BOOLEAN, initFails \in BOOLEAN :
        LET g == GetDatabase(db, openFails)
        IN  /\ db = "open" => ~openFails
            /\ db' = g.db
            /\ stages' = IF g.threw \/ initFails THEN stages
                         ELSE AddConfiguredStages(stages)
    /\ NoRun
    /\ coll' = NoCollection
    /\ UNCHANGED <<tierVars, stageVars>>

\* collectRepositories(config) up to the first processBatch:
\* createCollectionBatch (outside the try), then the search inside it
CollectStart ==
    /\ runState # "loop"
    /\ coll.status # "running"
    /\ \E n \in 0..MaxRepos, batchSize \in 1..MaxRepos,
          createOk \in BOOLEAN, searchOk \in BOOLEAN, failOk \in BOOLEAN :
        coll' = IF ~createOk
                THEN [NoCollection EXCEPT !.status = "failed", !.batchWriteFault = TRUE]
                ELSE IF ~searchOk
                THEN [NoCollection EXCEPT !.status = "failed",
                                          !.row = IF failOk THEN "failed" ELSE "running",
                                          !.batchWriteFault = ~failOk]
                ELSE [NoCollection EXCEPT !.status = "running", !.row = "running",
                                          !.githubRepos = [k \in 1..n |-> k],
                                          !.batchSize = batchSize]
    /\ NoRun
    /\ UNCHANGED <<stages, db>>
    /\ UNCHANGED <<tierVars, stageVars>>

\* processBatch, one githubRepo: storeRepository and addRepositoryToBatch;
\* when both succeed pipeline.execute starts, otherwise the catch block logs
\* and the loop goes on
ProcessCandidate ==
    /\ coll.status = "running"
    /\ coll.phase = "store"
    /\ coll.i < Len(coll.githubRepos)
    /\ \E storeOk \in BOOLEAN, linkOk \in BOOLEAN :
        LET id == coll.githubRepos[coll.i + coll.j]
        IN  IF storeOk /\ linkOk
            THEN /\ BeginExecute(id)
                 /\ coll' = [coll EXCEPT !.phase = "exec"]
            ELSE /\ NoRun
                 /\ coll' = [AfterFailure(coll) EXCEPT
                               !.processed = Append(@, Processed(id, storeOk, FALSE, "none"))]
    /\ UNCHANGED <<stages, db>>
    /\ UNCHANGED <<tierVars, stageVars>>

\* pipeline.execute has returned (processBatch drops the summary), or thrown
\* into processBatch's catch block
CandidateDone ==
    /\ coll.status = "running"
    /\ coll.phase = "exec"
    /\ runState \in {"returned", "threw"}
    /\ coll' = [(IF runState = "threw" THEN AfterFailure(coll) ELSE Advance(coll)) EXCEPT
                  !.phase = "store",
                  !.processed = Append(@, Processed(repo, TRUE, TRUE, runState))]
    /\ NoRun
    /\ UNCHANGED <<stages, db>>
    /\ UNCHANGED <<tierVars, stageVars>>

\* after the last batch: completeCollectionBatch; should it throw, the
\* catch block calls failCollectionBatch and rethrows
CollectFinish ==
    /\ coll.status = "running"
    /\ coll.phase = "store"
    /\ coll.i >= Len(coll.githubRepos)
    /\ \E completeOk \in BOOLEAN, failOk \in BOOLEAN :
        coll' = IF completeOk
                THEN [coll EXCEPT !.status = "completed", !.row = "completed"]
                ELSE [coll EXCEPT !.status = "failed",
                                  !.row = IF failOk THEN "failed" ELSE "running",
                                  !.batchWriteFault = TRUE]
    /\ UNCHANGED <<stages, db, runState, idx, repo, results, evals, sink>>
    /\ UNCHANGED <<tierVars, stageVars>>

(***************************************************************************)
(* RepositoryCollector.storeRepository and the repositories table.  Of a   *)
(* repository the model keeps the id and the metrics the stages read.      *)
(***************************************************************************)
RepositoryIds == {1, 2}

\* githubRepo.license (null, a string, or an object with a name): the
\* repositories of the model have the object
GitHubLicenses == {[kind |-> "object", name |-> "MIT"]}

\* what the search can return for a repository, now or at a later run
GitHubRepositories ==
    [id : RepositoryIds, stargazers_count : {100, 200}, forks_count : {10},
     archived : BOOLEAN, disabled : {FALSE}, pushed_at : {{}, {3}}, updated_at : {4},
     license : GitHubLicenses]

\* insertData (lines 122-152)
InsertData(githubRepo) ==
    [id          |-> githubRepo.id,
     license     |-> IF githubRepo.license.kind \in {"object", "string"}
                     THEN {githubRepo.license.name} ELSE {},
     updated_at  |-> {githubRepo.updated_at},
     pushed_at   |-> githubRepo.pushed_at,
     stars_count |-> {githubRepo.stargazers_count},
     forks_count |-> {githubRepo.forks_count},
     archived    |-> githubRepo.archived,
     disabled    |-> githubRepo.disabled]

\* storeRepository(githubRepo): the table after the call, whether it threw
\* and the Repository it returned; fault names the database call that
\* throws: the first select, the update or insert, the select after insert
StoreRepository(table, githubRepo, fault) ==
    LET existing == table[githubRepo.id]
        written == [table EXCEPT ![githubRepo.id] = {InsertData(githubRepo)}]
    IN  IF fault = "select"
        THEN [store |-> table, threw |-> TRUE, repository |-> {}]
        ELSE IF existing # {}
        THEN IF fault = "write"
             THEN [store |-> table, threw |-> TRUE, repository |-> {}]
             ELSE [store |-> written, threw |-> FALSE, repository |-> existing]
        ELSE IF fault = "write"
        THEN [store |-> table, threw |-> TRUE, repository |-> {}]
        ELSE IF fault = "reselect"
        THEN [store |-> written, threw |-> TRUE, repository |-> {}]
        ELSE [store |-> written, threw |-> FALSE, repository |-> written[githubRepo.id]]

\* one iteration of processBatch's loop up to the call of pipeline.execute
\* (lines 102-111): storeRepository, addRepositoryToBatch ("link" is its
\* insert throwing), and the Repository execute is called with, if any
ProcessRepository(githubRepo) ==
    /\ \E fault \in {"none", "select", "write", "reselect", "link"} :
        LET stored == StoreRepository(store, githubRepo, fault)
        IN  /\ store' = stored.store
            /\ handed' = <<[githubRepo |-> githubRepo,
                            existed    |-> store[githubRepo.id] # {},
                            fault      |-> fault,
                            repository |-> IF stored.threw \/ fault = "link" THEN {}
                                           ELSE stored.repository]>>
    /\ UNCHANGED <<candidate, criteria, assessments, outcome, now>>
    /\ UNCHANGED <<pipeVars, tierVars>>

\* an empty table, no processBatch iteration made
StoreIdle ==
    /\ store = [id \in RepositoryIds |-> {}]
    /\ handed = <<>>

\* no stage constructed or asked to evaluate
NoCandidate ==
    [id |-> 0, stars_count |-> {}, forks_count |-> {}, archived |-> FALSE,
     disabled |-> FALSE]

StagesIdle ==
    /\ candidate = NoCandidate
    /\ criteria = [type |-> "none"]
    /\ assessments = <<>>
    /\ outcome = <<>>
    /\ now = 0
    /\ StoreIdle

(***************************************************************************)
(* Numbers with fractions (scores), kept exact: num / den in lowest terms. *)
(***************************************************************************)
RECURSIVE GCD(_, _)
GCD(a, b) == IF b = 0 THEN a ELSE GCD(b, a % b)

Abs(n) == IF n < 0 THEN 0 - n ELSE n

\* n / d for d # 0
Rat(n, d) ==
    LET g == GCD(Abs(n), Abs(d))
        sn == IF d < 0 THEN 0 - n ELSE n
    IN  [num |-> sn \div g, den |-> Abs(d) \div g]

Zero == Rat(0, 1)

One == Rat(1, 1)

RatAdd(a, b) == Rat(a.num * b.den + b.num * a.den, a.den * b.den)

RatDiv(a, k) == Rat(a.num, a.den * k)

RatLeq(a, b) == a.num * b.den <= b.num * a.den

\* x ?? d, null being the empty set
Coalesce(x, d) == IF x = {} THEN d ELSE CHOOSE v \in x : TRUE

(***************************************************************************)
(* BaseFilterStage and PopularityFilter                                    *)
(***************************************************************************)
\* mutant: no upper clamp
NormalizeUnclamped(value, min, max) ==
    IF max = min THEN (IF value >= min THEN One ELSE Zero)
    ELSE LET q == Rat(value - min, max - min)
         IN  IF RatLeq(q, Zero) THEN Zero ELSE q

\* normalizeScore
NormalizeScore(value, min, max) ==
    IF max = min THEN (IF value >= min THEN One ELSE Zero)
    ELSE LET q == Rat(value - min, max - min)
             lower == IF RatLeq(q, Zero) THEN Zero ELSE q
         IN  IF RatLeq(One, lower) THEN One ELSE lower

\* createResult
CreateResult(passed, score, details) ==
    [passed |-> passed, score |-> score, details |-> details]

\* mutant: a null count passes its check
PopularityChecksNullPasses(repository, crit) ==
    [stars        |-> repository.stars_count = {}
                      \/ Coalesce(repository.stars_count, 0) >= crit.min_stars,
     forks        |-> repository.forks_count = {}
                      \/ Coalesce(repository.forks_count, 0) >= crit.min_forks,
     not_archived |-> IF crit.not_archived THEN ~repository.archived ELSE TRUE,
     not_disabled |-> IF crit.not_disabled THEN ~repository.disabled ELSE TRUE]

\* mutant: the bounds are exclusive
PopularityChecksStrict(repository, crit) ==
    [stars        |-> Coalesce(repository.stars_count, 0) > crit.min_stars,
     forks        |-> Coalesce(repository.forks_count, 0) > crit.min_forks,
     not_archived |-> IF crit.not_archived THEN ~repository.archived ELSE TRUE,
     not_disabled |-> IF crit.not_disabled THEN ~repository.disabled ELSE TRUE]

\* the checks of PopularityFilter.evaluate (lines 16-21)
PopularityChecks(repository, crit) ==
    [stars        |-> Coalesce(repository.stars_count, 0) >= crit.min_stars,
     forks        |-> Coalesce(repository.forks_count, 0) >= crit.min_forks,
     not_archived |-> IF crit.not_archived THEN ~repository.archived ELSE TRUE,
     not_disabled |-> IF crit.not_disabled THEN ~repository.disabled ELSE TRUE]

\* PopularityFilter.evaluate(repository)
PopularityEvaluate(repository, crit) ==
    LET checks == PopularityChecks(repository, crit)
        passed == \A c \in DOMAIN checks : checks[c]
        starScore == NormalizeScore(Coalesce(repository.stars_count, 0),
                                    crit.min_stars, crit.min_stars * 10)
        forkScore == NormalizeScore(Coalesce(repository.forks_count, 0),
                                    crit.min_forks, crit.min_forks * 10)
        archiveScore == IF repository.archived THEN Zero ELSE One
        disabledScore == IF repository.disabled THEN Zero ELSE One
        score == RatDiv(RatAdd(RatAdd(starScore, forkScore),
                               RatAdd(archiveScore, disabledScore)), 4)
    IN  CreateResult(passed, score,
                     [checks      |-> checks,
                      stars_count |-> repository.stars_count,
                      forks_count |-> repository.forks_count,
                      archived    |-> repository.archived,
                      disabled    |-> repository.disabled])

\* the star and fork counts a Repository can carry; {} is null
StarCounts == {{}, {0}, {9}, {10}, {11}, {55}, {99}, {100}, {101}}

ForkCounts == {{}, {0}, {9}, {10}, {55}, {100}}

PopularityCriteria ==
    [type : {"popularity"}, min_stars : {0, 10}, min_forks : {0, 10},
     not_archived : BOOLEAN, not_disabled : BOOLEAN]

\* filter.evaluate(repository) on the candidate with this star count, its
\* other fields as they are
EvaluatePopularity(stars) ==
    /\ criteria.type = "popularity"
    /\ candidate' = [candidate EXCEPT !.stars_count = stars]
    /\ outcome' = <<PopularityEvaluate(candidate', criteria)>>
    /\ UNCHANGED <<criteria, assessments, now, store, handed>>
    /\ UNCHANGED <<pipeVars, tierVars>>

(***************************************************************************)
(* ActivityFilter.  Timestamps and the clock are in half days since some   *)
(* epoch, so that Math.ceil of the day difference has something to round.  *)
(***************************************************************************)
\* Number.MAX_SAFE_INTEGER is 2^53 - 1; the model keeps a stand-in for it
\* that is above every day count and criteria value it uses
MAX_SAFE_INTEGER == 1000000

\* calculateDaysAgo(dateString); {} is null or the empty string
CalculateDaysAgo(dateString, clock) ==
    IF dateString = {} THEN MAX_SAFE_INTEGER
    ELSE LET diffTime == Abs(clock - Coalesce(dateString, 0))
         IN  (diffTime + 1) \div 2

\* mutant: only the push check gates the stage
ActivityChecksPushOnly(repository, crit, clock) ==
    [recent_activity |-> TRUE,
     push_activity   |-> CalculateDaysAgo(repository.pushed_at, clock)
                             <= crit.min_push_activity_days]

\* the checks of ActivityFilter.evaluate (lines 19-23)
ActivityChecks(repository, crit, clock) ==
    [recent_activity |-> CalculateDaysAgo(repository.updated_at, clock)
                             <= crit.recent_activity_days,
     push_activity   |-> CalculateDaysAgo(repository.pushed_at, clock)
                             <= crit.min_push_activity_days]

\* ActivityFilter.evaluate(repository), the clock reading clock
ActivityEvaluate(repository, crit, clock) ==
    LET pushDaysAgo == CalculateDaysAgo(repository.pushed_at, clock)
        updateDaysAgo == CalculateDaysAgo(repository.updated_at, clock)
        checks == ActivityChecks(repository, crit, clock)
        passed == \A c \in DOMAIN checks : checks[c]
        pushScore == NormalizeScore(crit.min_push_activity_days - pushDaysAgo, 0,
                                    crit.min_push_activity_days)
        updateScore == NormalizeScore(crit.recent_activity_days - updateDaysAgo, 0,
                                      crit.recent_activity_days)
        issueScore == NormalizeScore(Coalesce(repository.open_issues_count, 0), 0, 50)
        score == RatDiv(RatAdd(RatAdd(pushScore, updateScore), issueScore), 3)
    IN  CreateResult(passed, score,
                     [checks |-> [contributors    |-> TRUE,
                                  recent_activity |-> checks.recent_activity,
                                  push_activity   |-> checks.push_activity],
                      contributors_count |-> 0,
                      last_push_days     |-> pushDaysAgo,
                      last_update_days   |-> updateDaysAgo])

\* the Repository fields ActivityFilter reads; a timestamp is {} when it is
\* null (pushed_at is nullable) or empty
ActivityCandidates ==
    [id : {1}, pushed_at : {{}, {0}, {1}, {3}, {4}}, updated_at : {{}, {0}, {3}, {4}},
     open_issues_count : {{}, {0}, {25}, {60}}]

ActivityCriteria ==
    [type : {"activity"}, min_contributors : {0, 1000}, min_commits : {0},
     recent_activity_days : {0, 1, 2}, min_push_activity_days : {0, 1, 2}]

\* filter.evaluate(repository)
EvaluateActivity ==
    /\ criteria.type = "activity"
    /\ outcome' = <<ActivityEvaluate(candidate, criteria, now)>>
    /\ UNCHANGED <<candidate, criteria, assessments, now, store, handed>>
    /\ UNCHANGED <<pipeVars, tierVars>>

\* half a day passes
Tick ==
    /\ now < MaxClock
    /\ now' = now + 1
    /\ UNCHANGED <<candidate, criteria, assessments, outcome, store, handed>>
    /\ UNCHANGED <<pipeVars, tierVars>>

(***************************************************************************)
(* QualityFilter.  A description is kept by its length, the topics by      *)
(* their number ({} when the column holds no array).                       *)
(***************************************************************************)
\* mutant: the description gates the stage as well
QualityPassedDocumented(crit, checks) ==
    (IF crit.has_license THEN checks.has_license ELSE TRUE)
        /\ checks.documentation_quality

\* line 87
QualityPassed(crit, checks) ==
    IF crit.has_license THEN checks.has_license ELSE TRUE

\* QualityFilter.evaluate(repository)
QualityEvaluate(repository, crit) ==
    LET topics == IF repository.topics # {} THEN Coalesce(repository.topics, 0) ELSE 0
        hasDescription == repository.description # {}
                              /\ Coalesce(repository.description, 0) > 10
        checks == [has_readme |-> TRUE,
                   has_license |-> IF crit.has_license THEN repository.license # {}
                                   ELSE TRUE,
                   documentation_quality |-> hasDescription]
        passed == QualityPassed(crit, checks)
        licenseScore == IF checks.has_license THEN One ELSE Zero
        descriptionScore == IF checks.documentation_quality THEN One ELSE Zero
        homepageScore == IF repository.homepage \notin {{}, {""}} THEN Rat(1, 2) ELSE Zero
        topicsScore == NormalizeScore(topics, 0, 5)
        featuresScore ==
            RatDiv(RatAdd(RatAdd(IF repository.has_issues THEN One ELSE Zero,
                                 IF repository.has_projects THEN Rat(1, 2) ELSE Zero),
                          IF repository.has_wiki THEN Rat(1, 2) ELSE Zero), 2)
        score == RatDiv(RatAdd(RatAdd(RatAdd(licenseScore, descriptionScore),
                                      RatAdd(homepageScore, topicsScore)),
                               featuresScore), 5)
    IN  CreateResult(passed, score,
                     [checks          |-> checks,
                      readme_score    |-> Rat(4, 5),
                      license_name    |-> repository.license,
                      has_description |-> hasDescription])

\* the Repository fields QualityFilter reads
QualityCandidates ==
    [id : {1}, license : {{}, {"MIT"}}, description : {{}, {10}, {11}},
     homepage : {{}, {""}, {"https://example.org"}}, topics : {{}, {0}, {3}, {7}},
     has_issues : BOOLEAN, has_projects : BOOLEAN, has_wiki : BOOLEAN]

QualityCriteria ==
    [type : {"quality"}, has_readme : BOOLEAN, min_readme_quality : {0},
     has_license : BOOLEAN, max_issue_close_time : {0}]

\* filter.evaluate(repository)
EvaluateQuality ==
    /\ criteria.type = "quality"
    /\ outcome' = <<QualityEvaluate(candidate, criteria)>>
    /\ UNCHANGED <<candidate, criteria, assessments, now, store, handed>>
    /\ UNCHANGED <<pipeVars, tierVars>>

(***************************************************************************)
(* FinalSelectionFilter.  Scores are in thousandths, as in the pipeline.   *)
(* A QualityAssessment keeps the fields the checks read; its sub-scores    *)
(* and popularity_rank are copied to the details untouched and left out.   *)
(***************************************************************************)
\* qualityAssessments.find(a => a.repository_id === repository.id): the first
\* match, {} when there is none
FindAssessment(supplied, repositoryId) ==
    LET hits == {i \in 1..Len(supplied) : supplied[i].repository_id = repositoryId}
    IN  IF hits = {} THEN {}
        ELSE {supplied[CHOOSE i \in hits : \A j \in hits : i <= j]}

\* ceil(n / d) of the exact quotient
ExactCeil(n, d) == (n + d - 1) \div d

\* the (totalCount, topPercentile) pairs, among totalCount <= 40 and whole
\* topPercentile in 0..100, where the double totalCount * (topPercentile / 100)
\* exceeds the exact product: 28 / 100 and 56 / 100 round up as doubles, and
\* 25 * 0.28 = 7.000000000000001, 25 * 0.56 = 14.000000000000002
ProductRoundsUp == {<<25, 28>>, <<25, 56>>}

\* Math.ceil(totalCount * (topPercentile / 100)), line 69
RequiredRank(totalCount, topPercentile) ==
    ExactCeil(totalCount * topPercentile, 100)
        + (IF <<totalCount, topPercentile>> \in ProductRoundsUp THEN 1 ELSE 0)

\* isInTopPercentile
IsInTopPercentile(supplied, assessment, topPercentile) ==
    IF assessment.overall_rank = {} THEN FALSE
    ELSE Coalesce(assessment.overall_rank, 0)
             <= RequiredRank(Len(supplied), topPercentile)

\* calculatePercentileRank: Math.round(((total - rank + 1) / total) * 100)
CalculatePercentileRank(supplied, assessment) ==
    IF assessment.overall_rank = {} THEN 0
    ELSE LET total == Len(supplied)
             rank == Coalesce(assessment.overall_rank, 0)
         IN  (2 * (total - rank + 1) * 100 + total) \div (2 * total)

\* FinalSelectionFilter.evaluate(repository)
FinalEvaluate(repository, crit, supplied) ==
    LET found == FindAssessment(supplied, repository.id)
    IN  IF found = {}
        THEN [kind |-> "result"] @@
             CreateResult(FALSE, 0, [error |-> "No quality assessment found",
                                     repository_id |-> repository.id])
        ELSE
          LET assessment == CHOOSE a \in found : TRUE
              checks == [meets_minimum_score |->
                             assessment.overall_score >= crit.min_overall_score,
                         in_top_percentile |->
                             IsInTopPercentile(supplied, assessment, crit.top_percentile)]
              passed == checks.meets_minimum_score /\ checks.in_top_percentile
              score == assessment.overall_score
          IN  [kind |-> "result"] @@
              CreateResult(passed, score,
                           [overall_score   |-> assessment.overall_score,
                            overall_rank    |-> assessment.overall_rank,
                            checks          |-> checks,
                            percentile_rank |-> CalculatePercentileRank(supplied, assessment)])

\* assessments of other repositories
OtherAssessment == [repository_id |-> 2, overall_score |-> 500, overall_rank |-> {}]

Others(n) == [i \in 1..n |-> OtherAssessment]

\* the candidate's assessment: overall_score is a real column without a range
\* constraint, overall_rank a nullable integer (ranks start at 1)
OwnAssessments ==
    [repository_id : {1}, overall_score : {0, 599, 600, 1000, 1200},
     overall_rank : {{}, {1}, {7}, {8}, {13}}]

\* what the constructor can be given: nothing for the candidate, its
\* assessment among 1, 2 or 25, or two assessments for it among 25
SuppliedAssessments ==
    {Others(n) : n \in {0, 1, 24}}
    \cup {Others(n) \o <<a>> : n \in {0, 1, 24}, a \in OwnAssessments}
    \cup {<<a, [repository_id |-> 1, overall_score |-> 1200, overall_rank |-> {1}]>>
              \o Others(23) : a \in OwnAssessments}

FinalCriteria ==
    [type : {"final_selection"}, min_overall_score : {0, 600},
     top_percentile : {0, 28, 50, 100}]

\* filter.evaluate(repository) called directly
EvaluateFinal ==
    /\ criteria.type = "final_selection"
    /\ runState # "loop"
    /\ outcome' = <<FinalEvaluate(candidate, criteria, assessments)>>
    /\ UNCHANGED <<candidate, criteria, assessments, now, store, handed>>
    /\ UNCHANGED <<pipeVars, tierVars>>

\* the loop iteration of a pipeline holding this FinalSelectionFilter
StepFinal ==
    /\ criteria.type = "final_selection"
    /\ Step({FinalEvaluate(candidate, criteria, assessments)})

(***************************************************************************)
(* AdaptiveTierManager (core/adaptive-tier.ts).  The Japanese texts of the *)
(* source (tier names, reasons) are rendered in ASCII.                     *)
(***************************************************************************)
TOTAL_TARGET == 700
MIN_STARS_THRESHOLD == 1000

\* createInitialTiers(); an absent maxStars is the empty set
CreateInitialTiers ==
    << [id |-> "ultra-high", name |-> "ultra high quality",
        minStars |-> 20000, maxStars |-> {},
        targetCount |-> 100, actualCount |-> 0,
        query |-> "language:javascript stars:>=20000"],
       [id |-> "very-high", name |-> "very high quality",
        minStars |-> 10000, maxStars |-> {19999},
        targetCount |-> 150, actualCount |-> 0,
        query |-> "language:javascript stars:10000..19999"],
       [id |-> "high", name |-> "high quality",
        minStars |-> 5000, maxStars |-> {9999},
        targetCount |-> 250, actualCount |-> 0,
        query |-> "language:javascript stars:5000..9999"],
       [id |-> "good", name |-> "good quality",
        minStars |-> 1000, maxStars |-> {4999},
        targetCount |-> 200, actualCount |-> 0,
        query |-> "language:javascript stars:1000..4999"] >>

\* mutant: a surplus is kept as a negative shortfall
CalculateShortfallsSigned(ts) ==
    LET ids == {ts[k].id : k \in 1..Len(ts)}
        last(i) == CHOOSE k \in 1..Len(ts) :
                      ts[k].id = i /\ \A j \in 1..Len(ts) : ts[j].id = i => j <= k
    IN  [i \in ids |-> ts[last(i)].targetCount - ts[last(i)].actualCount]

\* calculateShortfalls: the Record keyed by tier.id of the positive
\* shortfalls; a later tier with the same id overwrites an earlier one
CalculateShortfalls(ts) ==
    LET pos == {k \in 1..Len(ts) : ts[k].targetCount - ts[k].actualCount > 0}
        ids == {ts[k].id : k \in pos}
        last(i) == CHOOSE k \in pos :
                      ts[k].id = i /\ \A j \in pos : ts[j].id = i => j <= k
    IN  [i \in ids |-> ts[last(i)].targetCount - ts[last(i)].actualCount]

RECURSIVE SumOver(_, _)
SumOver(f, S) ==
    IF S = {} THEN 0
    ELSE LET x == CHOOSE y \in S : TRUE
         IN  f[x] + SumOver(f, S \ {x})

\* Object.values(shortfalls).reduce((sum, s) => sum + s, 0)
TotalShortfall(shortfalls) == SumOver(shortfalls, DOMAIN shortfalls)

\* determineAdjustmentStrategy
DetermineAdjustmentStrategy(shortfalls) ==
    LET totalShortfall == TotalShortfall(shortfalls)
        ultraHighShortfall ==
            IF "ultra-high" \in DOMAIN shortfalls THEN shortfalls["ultra-high"] ELSE 0
    IN  IF ultraHighShortfall > 50 THEN "reduce-threshold"
        ELSE IF totalShortfall <= 100 THEN "compensate-lower"
        ELSE "mixed"

\* tiers.find((t) => t.id === tierId): position of the first match, 0 for none
Find(ts, tierId) ==
    IF \E k \in 1..Len(ts) : ts[k].id = tierId
    THEN CHOOSE k \in 1..Len(ts) :
            ts[k].id = tierId /\ \A j \in 1..(k - 1) : ts[j].id # tierId
    ELSE 0

\* mutant: no if (tier) around the writes
Unguarded(found) == found

\* if (tier) { ... }: of the positions find returned, the ones written to;
\* 0 stands for undefined, and a write through it throws a TypeError
Defined(found) == found \ {0}

\* mutant: rounds down
FloorDiv(n, d) == n \div d

\* mutant: rounds down and adds one
FloorDivPlusOne(n, d) == (n \div d) + 1

\* Math.ceil(n / d) for a positive d
CeilDiv(n, d) == (n + d - 1) \div d

\* mutant: every tier's target is raised
CompensateEveryTier(ts) ==
    LET totalShortfall == TotalShortfall(CalculateShortfalls(ts))
    IN  [tiers  |-> [k \in 1..Len(ts) |->
                        [ts[k] EXCEPT !.targetCount = @ + CeilDiv(totalShortfall, 2)]],
         reason |-> <<"lower tiers compensate ", ToString(totalShortfall),
                      " (high, good targets raised)">>,
         threw  |-> FALSE]

\* mutant: the lower tiers give their targets away
CompensateByLowering(ts) ==
    LET totalShortfall == TotalShortfall(CalculateShortfalls(ts))
        hit == {Find(ts, "high"), Find(ts, "good")} \ {0}
    IN  [tiers  |-> [k \in 1..Len(ts) |->
                        IF k \in hit
                        THEN [ts[k] EXCEPT !.targetCount = @ - CeilDiv(totalShortfall, 2)]
                        ELSE ts[k]],
         reason |-> <<"lower tiers compensate ", ToString(totalShortfall),
                      " (high, good targets raised)">>,
         threw  |-> FALSE]

\* compensateWithLowerTiers: the tier objects after the call, the reason,
\* and whether the call threw instead of returning
CompensateWithLowerTiers(ts) ==
    LET totalShortfall == TotalShortfall(CalculateShortfalls(ts))
        lowerTiers == <<"high", "good">>
        compensationPerTier == CeilDiv(totalShortfall, Len(lowerTiers))
        hit == Defined({Find(ts, lowerTiers[k]) : k \in 1..Len(lowerTiers)})
    IN  [tiers  |-> [k \in 1..Len(ts) |->
                        IF k \in hit
                        THEN [ts[k] EXCEPT !.targetCount = @ + compensationPerTier]
                        ELSE ts[k]],
         reason |-> <<"lower tiers compensate ", ToString(totalShortfall),
                      " (high, good targets raised)">>,
         threw  |-> 0 \in hit]

ReduceReason ==
    <<"ultra-high tier threshold lowered 20,000 -> 15,000 to widen the collection range">>

\* mutant: only the ultra-high tier is rewritten
ReduceTopOnly(ts) ==
    LET u == Find(ts, "ultra-high")
    IN  [tiers  |-> [k \in 1..Len(ts) |->
                        IF k = u
                        THEN [ts[k] EXCEPT !.minStars = 15000,
                                           !.query = "language:javascript stars:>=15000"]
                        ELSE ts[k]],
         reason |-> ReduceReason,
         threw  |-> FALSE]

\* mutant: the bands are moved, the queries are not rewritten
ReduceStaleQueries(ts) ==
    LET u == Find(ts, "ultra-high")
        v == Find(ts, "very-high")
    IN  [tiers  |-> [k \in 1..Len(ts) |->
                        IF k = u THEN [ts[k] EXCEPT !.minStars = 15000]
                        ELSE IF k = v THEN [ts[k] EXCEPT !.maxStars = {14999}]
                        ELSE ts[k]],
         reason |-> ReduceReason,
         threw  |-> FALSE]

\* mutant: every tier's threshold is lowered by a quarter
ReduceEveryThreshold(ts) ==
    [tiers  |-> [k \in 1..Len(ts) |->
                    [ts[k] EXCEPT !.minStars = (3 * @) \div 4]],
     reason |-> ReduceReason,
     threw  |-> FALSE]

\* reduceThresholds
ReduceThresholds(ts) ==
    LET ultraHighTier == Find(ts, "ultra-high")
        veryHighTier == Find(ts, "very-high")
        \* if (ultraHighTier)
        top == Defined({ultraHighTier})
        \* if (veryHighTier && ultraHighTier)
        next == IF ultraHighTier # 0 THEN Defined({veryHighTier}) ELSE {}
    IN  [tiers  |-> [k \in 1..Len(ts) |->
                        IF k \in top
                        THEN [ts[k] EXCEPT !.minStars = 15000,
                                           !.query = "language:javascript stars:>=15000"]
                        ELSE IF k \in next
                        THEN [ts[k] EXCEPT !.maxStars = {14999},
                                           !.query = "language:javascript stars:10000..14999"]
                        ELSE ts[k]],
         reason |-> ReduceReason,
         threw  |-> 0 \in (top \cup next)]

\* mutant: the mixed strategy only compensates
MixedCompensatesOnly(ts) ==
    LET compensationResult == CompensateWithLowerTiers(ts)
    IN  [tiers  |-> compensationResult.tiers,
         reason |-> <<"mixed strategy: ">> \o ReduceReason
                    \o <<", in addition ">> \o compensationResult.reason,
         threw  |-> compensationResult.threw]

\* executeMixedStrategy
ExecuteMixedStrategy(ts) ==
    LET thresholdResult == ReduceThresholds(ts)
        compensationResult == CompensateWithLowerTiers(thresholdResult.tiers)
    IN  IF thresholdResult.threw THEN thresholdResult
        ELSE [tiers  |-> compensationResult.tiers,
              reason |-> <<"mixed strategy: ">> \o thresholdResult.reason
                         \o <<", in addition ">> \o compensationResult.reason,
              threw  |-> compensationResult.threw]

\* executeAdjustment
ExecuteAdjustment(ts, strategy) ==
    CASE strategy = "compensate-lower" -> CompensateWithLowerTiers(ts)
      [] strategy = "reduce-threshold" -> ReduceThresholds(ts)
      [] strategy = "mixed"            -> ExecuteMixedStrategy(ts)
      [] OTHER -> [tiers |-> ts, reason |-> <<"No adjustment needed">>, threw |-> FALSE]

RECURSIVE SumField(_, _)
SumField(ts, field) ==
    IF ts = <<>> THEN 0 ELSE ts[1][field] + SumField(Tail(ts), field)

GetTotalActual(ts) == SumField(ts, "actualCount")

GetTotalTarget(ts) == SumField(ts, "targetCount")

\* mutant: only the floor is checked
ValidateFloorOnly(ts) ==
    ~(Len(ts) > 0 /\ ts[Len(ts)].minStars < 1000)

\* validateQualityStandards; TOTAL_TARGET * 0.9 is the double 630
ValidateQualityStandards(ts) ==
    LET lowestTier == IF Len(ts) > 0 THEN {ts[Len(ts)]} ELSE {}
    IN  IF \E t \in lowestTier : t.minStars < MIN_STARS_THRESHOLD THEN FALSE
        ELSE IF 10 * GetTotalTarget(ts) < 9 * TOTAL_TARGET THEN FALSE
        ELSE TRUE

\* [...tiers]: a new array holding references to the same tier objects,
\* written as the positions of these objects in tiers
SpreadCopy(ts) == [k \in 1..Len(ts) |-> k]

\* the tier objects an array of references leads to
Deref(heap, refs) == [k \in 1..Len(refs) |-> heap[refs[k]]]

\* no adjustTiers call made yet, or its result dropped
NoAdjust ==
    [calls |-> 0, called |-> FALSE, threw |-> FALSE, strategy |-> "", before |-> <<>>,
     originalTiers |-> <<>>, adjustedTiers |-> <<>>, adjustmentReason |-> <<>>,
     totalTarget |-> 0, totalActual |-> 0]

\* adjustTiers(tiers), called as execute() calls it, after the collection
\* loop: the strategies write to the objects that tiers,
\* originalTiers and adjustedTiers all refer to; before keeps the values the
\* objects had when the call was made, threw whether the call threw
\* instead of returning the result
AdjustTiers ==
    /\ collected = Len(tiers)
    /\ adjust.calls < MaxAdjusts
    /\ LET originalTiers == SpreadCopy(tiers)
           adjustedTiers == SpreadCopy(tiers)
           shortfalls == CalculateShortfalls(tiers)
           adjustmentStrategy == DetermineAdjustmentStrategy(shortfalls)
           adjustmentResult ==
               ExecuteAdjustment(Deref(tiers, adjustedTiers), adjustmentStrategy)
       IN  /\ tiers' = [h \in 1..Len(tiers) |->
                           IF \E k \in 1..Len(adjustedTiers) : adjustedTiers[k] = h
                           THEN adjustmentResult.tiers[
                                    CHOOSE k \in 1..Len(adjustedTiers) : adjustedTiers[k] = h]
                           ELSE tiers[h]]
           /\ adjust' = [calls            |-> adjust.calls + 1,
                         called           |-> TRUE,
                         threw            |-> adjustmentResult.threw,
                         strategy         |-> adjustmentStrategy,
                         before           |-> tiers,
                         originalTiers    |-> originalTiers,
                         adjustedTiers    |-> adjustedTiers,
                         adjustmentReason |-> adjustmentResult.reason,
                         totalTarget      |-> TOTAL_TARGET,
                         totalActual      |-> GetTotalActual(adjustmentResult.tiers)]
    /\ verdict' = <<>>
    /\ estimate' = <<>>
    /\ UNCHANGED <<pipeVars, stageVars, collected>>

\* the numbers of repositories a tier's collection can report
ObservedCounts == {0, 49, 50, 99, 100, 300}

\* executeTierCollection, one iteration of its loop: the tier's actualCount
\* becomes the count its collection reported, or 0 when the collection
\* threw; execute() runs the loop before adjustTiers, and nothing writes
\* actualCount afterwards
ExecuteTierCollection ==
    /\ collected < Len(tiers)
    /\ \E count \in ObservedCounts :
          tiers' = [tiers EXCEPT ![collected + 1].actualCount = count]
    /\ collected' = collected + 1
    /\ UNCHANGED <<adjust, verdict, estimate>>
    /\ UNCHANGED <<pipeVars, stageVars>>

\* mutant: the estimate is the target
EstimateUncapped(tier) == tier.targetCount

\* estimateAvailableCount(tier)
EstimateAvailableCount(tier) ==
    LET min(a, b) == IF a <= b THEN a ELSE b
    IN  IF tier.minStars >= 20000 THEN min(tier.targetCount, 80)
        ELSE IF tier.minStars >= 10000 THEN min(tier.targetCount, 200)
        ELSE IF tier.minStars >= 5000 THEN min(tier.targetCount, 400)
        ELSE tier.targetCount

\* estimateAvailableCount(tiers[k]) called by a user of the manager
Estimate(k) ==
    /\ estimate' = <<[tier |-> k, value |-> EstimateAvailableCount(tiers[k])]>>
    /\ UNCHANGED <<tiers, collected, adjust, verdict>>
    /\ UNCHANGED <<pipeVars, stageVars>>

\* mutant: the tier objects made by the first call are handed out again
ReusedTiers(held) == held

\* what a createInitialTiers call returns while the caller holds the tier
\* objects held: the array literal is evaluated anew, so none of them
NewInitialTiers(held) == CreateInitialTiers

\* execute() starts over: createInitialTiers(), nothing collected or adjusted
CreateTiers ==
    /\ tiers' = NewInitialTiers(tiers)
    /\ collected' = 0
    /\ adjust' = [NoAdjust EXCEPT !.calls = adjust.calls]
    /\ verdict' = <<>>
    /\ estimate' = <<>>
    /\ UNCHANGED <<pipeVars, stageVars>>

\* validateQualityStandards(tiers) called by a user of the manager
Validate ==
    /\ verdict = <<>>
    /\ verdict' = <<ValidateQualityStandards(tiers)>>
    /\ UNCHANGED <<tiers, collected, adjust, estimate>>
    /\ UNCHANGED <<pipeVars, stageVars>>

Init ==
    /\ stages = <<>>
    /\ db = "null"
    /\ runState = "none"
    /\ idx = 0
    /\ repo = 0
    /\ results = <<>>
    /\ evals = <<>>
    /\ sink = <<>>
    /\ coll = NoCollection
    /\ tiers = CreateInitialTiers
    /\ collected = 0
    /\ adjust = NoAdjust
    /\ verdict = <<>>
    /\ estimate = <<>>
    /\ StagesIdle

Next ==
    \/ \E id \in StageIds : AddStage(id)
    \/ \E r \in RepoIds : ExecuteStart(r)
    \/ ExecuteStep
    \/ OpenDatabase
    \/ CloseDatabase

Spec == Init /\ [][Next]_vars

\* new RepositoryCollector(token): the constructor has obtained the handle
InitCollector ==
    /\ stages = <<>>
    /\ db = "open"
    /\ runState = "none"
    /\ idx = 0
    /\ repo = 0
    /\ results = <<>>
    /\ evals = <<>>
    /\ sink = <<>>
    /\ coll = NoCollection
    /\ tiers = CreateInitialTiers
    /\ collected = 0
    /\ adjust = NoAdjust
    /\ verdict = <<>>
    /\ estimate = <<>>
    /\ StagesIdle

NextCollector ==
    \/ SetupPipeline
    \/ CollectStart
    \/ ProcessCandidate
    \/ ExecuteStep
    \/ CandidateDone
    \/ CollectFinish
    \/ CloseDatabase

SpecCollector == InitCollector /\ [][NextCollector]_vars

(***************************************************************************)
(* The tier manager used as the orchestrator uses it: tiers from           *)
(* createInitialTiers, counts set by the collection, then adjustTiers.     *)
(***************************************************************************)
PipelineIdle ==
    /\ stages = <<>>
    /\ db = "null"
    /\ runState = "none"
    /\ idx = 0
    /\ repo = 0
    /\ results = <<>>
    /\ evals = <<>>
    /\ sink = <<>>
    /\ coll = NoCollection

InitTier ==
    /\ PipelineIdle
    /\ tiers = CreateInitialTiers
    /\ collected = 0
    /\ adjust = NoAdjust
    /\ verdict = <<>>
    /\ estimate = <<>>
    /\ StagesIdle

NextTier ==
    \/ CreateTiers
    \/ ExecuteTierCollection
    \/ AdjustTiers
    \/ Validate

SpecTier == InitTier /\ [][NextTier]_vars

(***************************************************************************)
(* The tier manager's public methods on any tier collection.               *)
(***************************************************************************)
TierIds == {"ultra-high", "very-high", "high", "good", "extra"}

\* the TierConfig objects a caller can pass
InputTiers ==
    [id : TierIds, name : {"tier"}, minStars : {999, 1000}, maxStars : {{}},
     targetCount : {0, 315}, actualCount : {0}, query : {"language:javascript"}]

RECURSIVE SeqsUpTo(_, _)
SeqsUpTo(S, n) ==
    IF n = 0 THEN {<<>>}
    ELSE LET shorter == SeqsUpTo(S, n - 1)
         IN  shorter \cup {Append(q, x) : q \in shorter, x \in S}

InitTierInput ==
    /\ PipelineIdle
    /\ tiers \in SeqsUpTo(InputTiers, MaxTiers)
    /\ collected = Len(tiers)
    /\ adjust = NoAdjust
    /\ verdict = <<>>
    /\ estimate = <<>>
    /\ StagesIdle

NextTierInput ==
    \/ AdjustTiers
    \/ Validate
    \/ \E k \in 1..Len(tiers) : Estimate(k)

SpecTierInput == InitTierInput /\ [][NextTierInput]_vars

(***************************************************************************)
(* estimateAvailableCount on the tiers of any collection.                  *)
(***************************************************************************)
EstimateTiers ==
    [id : {"tier"}, name : {"tier"},
     minStars : {4999, 5000, 9999, 10000, 19999, 20000}, maxStars : {{}},
     targetCount : {80, 81, 201, 401}, actualCount : {0},
     query : {"language:javascript"}]

InitEstimate ==
    /\ PipelineIdle
    /\ tiers \in SeqsUpTo(EstimateTiers, MaxTiers)
    /\ collected = Len(tiers)
    /\ adjust = NoAdjust
    /\ verdict = <<>>
    /\ estimate = <<>>
    /\ StagesIdle

NextEstimate == \E k \in 1..Len(tiers) : Estimate(k)

SpecEstimate == InitEstimate /\ [][NextEstimate]_vars

(***************************************************************************)
(* PopularityFilter on any candidate and criteria record.                  *)
(***************************************************************************)
TiersIdle ==
    /\ tiers = CreateInitialTiers
    /\ collected = 0
    /\ adjust = NoAdjust
    /\ verdict = <<>>
    /\ estimate = <<>>

InitPopularity ==
    /\ PipelineIdle
    /\ TiersIdle
    /\ candidate \in [id : {1}, stars_count : StarCounts, forks_count : ForkCounts,
                      archived : BOOLEAN, disabled : BOOLEAN]
    /\ criteria \in PopularityCriteria
    /\ assessments = <<>>
    /\ outcome = <<>>
    /\ now = 0
    /\ StoreIdle

NextPopularity == \E stars \in StarCounts : EvaluatePopularity(stars)

SpecPopularity == InitPopularity /\ [][NextPopularity]_vars

(***************************************************************************)
(* ActivityFilter on any candidate and criteria record, with time passing. *)
(***************************************************************************)
InitActivity ==
    /\ PipelineIdle
    /\ TiersIdle
    /\ candidate \in ActivityCandidates
    /\ criteria \in ActivityCriteria
    /\ assessments = <<>>
    /\ outcome = <<>>
    /\ now = 4
    /\ StoreIdle

NextActivity == EvaluateActivity \/ Tick

SpecActivity == InitActivity /\ [][NextActivity]_vars

(***************************************************************************)
(* QualityFilter on any candidate and criteria record.                     *)
(***************************************************************************)
InitQuality ==
    /\ PipelineIdle
    /\ TiersIdle
    /\ candidate \in QualityCandidates
    /\ criteria \in QualityCriteria
    /\ assessments = <<>>
    /\ outcome = <<>>
    /\ now = 0
    /\ StoreIdle

NextQuality == EvaluateQuality

SpecQuality == InitQuality /\ [][NextQuality]_vars

(***************************************************************************)
(* processBatch storing the repositories a search returns, run after run.  *)
(***************************************************************************)
InitStore ==
    /\ PipelineIdle
    /\ TiersIdle
    /\ StagesIdle

NextStore == \E githubRepo \in GitHubRepositories : ProcessRepository(githubRepo)

SpecStore == InitStore /\ [][NextStore]_vars

(***************************************************************************)
(* FinalSelectionFilter, called directly and inside a pipeline that holds  *)
(* it: pipeline.addStage(new FinalSelectionFilter(criteria, assessments)). *)
(***************************************************************************)
InitFinal ==
    /\ stages = SortedInsert(<<>>, NewStage(<<>>, 4))
    /\ db \in {"null", "open"}
    /\ runState = "none"
    /\ idx = 0
    /\ repo = 0
    /\ results = <<>>
    /\ evals = <<>>
    /\ sink = <<>>
    /\ coll = NoCollection
    /\ TiersIdle
    /\ candidate = [NoCandidate EXCEPT !.id = 1]
    /\ criteria \in FinalCriteria
    /\ assessments \in SuppliedAssessments
    /\ outcome = <<>>
    /\ now = 0
    /\ StoreIdle

NextFinal ==
    \/ EvaluateFinal
    \/ ExecuteStart(candidate.id)
    \/ StepFinal

SpecFinal == InitFinal /\ [][NextFinal]_vars

(***************************************************************************)
(* Properties of FilteringPipeline.execute                                 *)
(***************************************************************************)
Finished == runState \in {"returned", "threw"}

FailedNonFinal(e) ==
    e.out.kind = "result" /\ ~e.out.passed /\ e.stage.name # "final_selection"

SinkFailed == \E i \in 1..Len(sink) : sink[i].fault # "none"

SkippedCalls == {i \in 1..Len(sink) : sink[i].status = "skipped"}

\* C1: when a stage other than final_selection returns passed=false, no later
\* stage is evaluated, every later stage is recorded to the sink as skipped
\* (score 0, a reason naming the failed stage) and the returned list has one
\* entry per configured stage.
C1_FailedStageSkipsRest ==
    Finished =>
        \A k \in 1..Len(evals) :
            FailedNonFinal(evals[k]) =>
                /\ k = Len(evals)
                /\ runState = "returned"
                /\ Len(results) = Len(stages)
                /\ Cardinality(SkippedCalls) = Len(stages) - evals[k].pos
                /\ \A p \in (evals[k].pos + 1)..Len(stages) :
                      /\ results[p] = SkippedResult(stages[p])
                      /\ \E i \in SkippedCalls :
                            /\ sink[i].stage_id = stages[p].id
                            /\ sink[i].repository_id = repo
                            /\ sink[i].score = 0
                            /\ sink[i].details.reason[2] = evals[k].stage.name

\* C2: however a run stops, the returned list holds exactly one entry per
\* configured stage, in stage order. Stated for the runs in which every
\* write succeeds, where it already fails.
C2_OneEntryPerStage ==
    (runState = "returned" /\ ~SinkFailed) =>
        /\ Len(results) = Len(stages)
        /\ \A p \in 1..Len(stages) : results[p].stage = stages[p].name

\* C3: when a stage's evaluate raises, the stage is recorded as failed with
\* score 0 and the exception message, no further stage is evaluated and
\* execute returns normally.
C3_RaiseIsContained ==
    Finished =>
        \A k \in 1..Len(evals) :
            evals[k].out.kind = "raise" =>
                /\ k = Len(evals)
                /\ runState = "returned"
                /\ results[Len(results)] = ErrorResult(evals[k].stage, evals[k].out.error)
                /\ LET c == sink[Len(sink)]
                   IN  /\ c.stage_id = evals[k].stage.id
                       /\ c.status = "failed"
                       /\ c.score = 0
                       /\ c.details = [error |-> ErrorMessage(evals[k].out.error)]

\* what execute returns for these evaluate outcomes when every write succeeds
RECURSIVE ResultsOf(_)
ResultsOf(es) ==
    IF es = <<>> THEN <<>>
    ELSE LET e == es[1]
             rem == RemainingStages(stages, e.stage)
         IN  (IF e.out.kind = "raise" THEN <<ErrorResult(e.stage, e.out.error)>>
              ELSE IF FailedNonFinal(e)
              THEN <<StageResult(e.stage, e.out)>>
                   \o [k \in 1..Len(rem) |-> SkippedResult(rem[k])]
              ELSE <<StageResult(e.stage, e.out)>>)
             \o ResultsOf(Tail(es))

\* the run evaluated what a run without write failures evaluates: it went on
\* to the last stage unless an evaluated stage raised or stopped the pipeline
EvaluatedAsUsual ==
    /\ \A k \in 1..Len(evals) : evals[k].pos = k
    /\ Len(evals) > 0 =>
          \/ Len(evals) = Len(stages)
          \/ evals[Len(evals)].out.kind = "raise"
          \/ FailedNonFinal(evals[Len(evals)])

\* C4: a failure of the sink (obtaining the handle, or the insert) does not
\* abort the run: execute returns, having evaluated and returned what a run
\* without write failures evaluates and returns.
C4_SinkFailureTolerated ==
    (Finished /\ SinkFailed) =>
        /\ runState = "returned"
        /\ EvaluatedAsUsual
        /\ results = ResultsOf(evals)

\* C5: in one run the sink is invoked exactly once per configured stage,
\* evaluated or skipped. Stated for the runs in which every write succeeds,
\* where it already fails.
C5_OneSinkCallPerStage ==
    (Finished /\ ~SinkFailed) =>
        /\ Len(sink) = Len(stages)
        /\ \A p \in 1..Len(stages) : sink[p].stage_id = stages[p].id

C8_AscendingNoRetry ==
    /\ \A p, q \in 1..Len(stages) : p < q => stages[p].id <= stages[q].id
    /\ \A k \in 1..Len(evals) :
          /\ evals[k].pos = k
          /\ evals[k].stage = stages[k]
    /\ \A h, k \in 1..Len(evals) :
          h < k => /\ evals[h].stage.id <= evals[k].stage.id
                   /\ evals[h].stage # evals[k].stage

C8_Witness ==
    /\ runState = "returned"
    /\ Len(evals) = 4
    /\ \A k \in 1..4 : evals[k].stage.id = k

\* C9: when final_selection returns passed=false it is recorded as failed,
\* no stage is marked skipped because of it and the run returns normally.
C9_FinalFailureEndsNormally ==
    Finished =>
        \A k \in 1..Len(evals) :
            (/\ evals[k].stage.name = "final_selection"
             /\ evals[k].out.kind = "result"
             /\ ~evals[k].out.passed) =>
                /\ runState = "returned"
                /\ \E i \in 1..Len(sink) :
                      /\ sink[i].stage_id = evals[k].stage.id
                      /\ sink[i].status = "failed"
                      /\ sink[i].score = evals[k].out.score
                /\ SkippedCalls = {}
                /\ results = [h \in 1..Len(evals) |-> StageResult(evals[h].stage, evals[h].out)]

(***************************************************************************)
(* Properties of RepositoryCollector                                       *)
(***************************************************************************)
\* C6: in a pipeline built by setupPipeline calls a run yields one outcome
\* per (candidate, stage id): one stage per id is held, and the stage
\* evaluated for an id is the one of the most recent configuration.
C6_OneOutcomePerStageId ==
    /\ \A p, q \in 1..Len(stages) : p # q => stages[p].id # stages[q].id
    /\ \A h, k \in 1..Len(results) : h # k => results[h].stage # results[k].stage
    /\ \A k \in 1..Len(evals) :
          \A p \in 1..Len(stages) :
              stages[p].id = evals[k].stage.id => stages[p].obj <= evals[k].stage.obj

\* C10: processBatch goes through every githubRepo of every batch whatever
\* failed for the ones before it (store, link, or an exception leaving
\* pipeline.execute), evaluates each one it stored and linked, and the
\* collection does not fail because of a candidate.
C10_BatchFailuresIsolated ==
    /\ \A k \in 1..Len(coll.processed) :
          /\ coll.processed[k].id = coll.githubRepos[k]
          /\ (coll.processed[k].stored /\ coll.processed[k].linked)
                => coll.processed[k].run \in {"returned", "threw"}
    /\ coll.status = "running" =>
          Len(coll.processed) =
              (IF coll.i > Len(coll.githubRepos) THEN Len(coll.githubRepos) ELSE coll.i)
              + coll.j - 1
    /\ coll.status \in {"completed", "failed"} =>
          Len(coll.processed) = Len(coll.githubRepos)

C10_Witness ==
    /\ coll.status = "completed"
    /\ Len(coll.processed) = 2
    /\ coll.processed[1].run = "threw"
    /\ coll.processed[2].run = "returned"
    /\ coll.batchSize = 2

(***************************************************************************)
(* Properties of AdaptiveTierManager                                       *)
(***************************************************************************)
\* s(t) = max(0, target - observed)
Shortfall(t) ==
    IF t.targetCount > t.actualCount THEN t.targetCount - t.actualCount ELSE 0

RECURSIVE SumShortfall(_)
SumShortfall(ts) ==
    IF ts = <<>> THEN 0 ELSE Shortfall(ts[1]) + SumShortfall(Tail(ts))

\* position of the tier with the highest star band
TopTier(ts) ==
    CHOOSE k \in 1..Len(ts) : \A j \in 1..Len(ts) : ts[j].minStars <= ts[k].minStars

\* position of the tier with the lowest star band
LowestBandTier(ts) ==
    CHOOSE k \in 1..Len(ts) : \A j \in 1..Len(ts) : ts[k].minStars <= ts[j].minStars

TopShortfall(ts) == Shortfall(ts[TopTier(ts)])

\* the fields a rebalance may write
Plan(t) ==
    [targetCount |-> t.targetCount, minStars |-> t.minStars,
     maxStars |-> t.maxStars, query |-> t.query]

Increase(k) == tiers[k].targetCount - adjust.before[k].targetCount

Targeted == {k \in 1..Len(tiers) : tiers[k].id \in {"high", "good"}}

RECURSIVE SumIncrease(_)
SumIncrease(K) ==
    IF K = {} THEN 0
    ELSE LET k == CHOOSE j \in K : TRUE
         IN  Increase(k) + SumIncrease(K \ {k})

\* C11: adjustTiers chooses its strategy from the shortfalls
\* s(t) = max(0, target - observed), a surplus never offsetting a deficit:
\* reduce-threshold iff the topmost tier's shortfall is > 50, otherwise
\* compensate-lower iff the sum of the shortfalls is <= 100, otherwise mixed.
C11_StrategyFromShortfalls ==
    adjust.called =>
        adjust.strategy =
            IF TopShortfall(adjust.before) > 50 THEN "reduce-threshold"
            ELSE IF SumShortfall(adjust.before) <= 100 THEN "compensate-lower"
            ELSE "mixed"

C11_Witness ==
    /\ adjust.called
    /\ adjust.strategy = "mixed"
    /\ GetTotalTarget(adjust.before) - GetTotalActual(adjust.before) <= 100

\* C12: when every tier's observed count is at least its target, adjustTiers
\* returns the reason "No adjustment needed".
C12_NoShortfallSentinel ==
    (adjust.called /\ SumShortfall(adjust.before) = 0) =>
        adjust.adjustmentReason = <<"No adjustment needed">>

\* C13: after adjustTiers returns, result.originalTiers holds each tier's
\* pre-call targetCount, minStars, maxStars and predicate, while the
\* passed-in collection and result.adjustedTiers hold the adjusted values.
C13_OriginalIsSnapshot ==
    adjust.called =>
        /\ \A k \in 1..Len(adjust.originalTiers) :
              Plan(Deref(tiers, adjust.originalTiers)[k]) = Plan(adjust.before[k])
        /\ Deref(tiers, adjust.adjustedTiers) = tiers

\* C14: when the total shortfall is zero, adjustTiers leaves every tier's
\* targetCount, minStars, maxStars and predicate unchanged.
C14_NoShortfallNoChange ==
    (adjust.called /\ SumShortfall(adjust.before) = 0) =>
        \A k \in 1..Len(tiers) : Plan(tiers[k]) = Plan(adjust.before[k])

C14_Witness ==
    /\ adjust.called
    /\ SumShortfall(adjust.before) = 0
    /\ adjust.strategy = "compensate-lower"
    /\ \E k \in 1..Len(tiers) : tiers[k].actualCount > tiers[k].targetCount

C16_CompensateCeil ==
    (/\ adjust.called
     /\ TopShortfall(adjust.before) <= 50
     /\ SumShortfall(adjust.before) <= 100) =>
        LET S == SumShortfall(adjust.before)
        IN  /\ \A k \in Targeted : 2 * Increase(k) >= S /\ 2 * Increase(k) <= S + 1
            /\ SumIncrease(Targeted) >= S
            /\ SumIncrease(Targeted) <= S + Cardinality(Targeted) - 1
            /\ \A k \in (1..Len(tiers)) \ Targeted : Increase(k) = 0

C16_Witness ==
    /\ adjust.called
    /\ adjust.strategy = "compensate-lower"
    /\ SumShortfall(adjust.before) = 51
    /\ SumIncrease(Targeted) = 52

\* C17: when the topmost shortfall is <= 50 and the total shortfall is > 100,
\* adjustTiers lowers the threshold and then raises the targets of high and
\* good by half the shortfall recomputed after the threshold change, and the
\* reason holds both strategies' explanations.
C17_MixedDoesBoth ==
    (/\ adjust.called
     /\ TopShortfall(adjust.before) <= 50
     /\ SumShortfall(adjust.before) > 100) =>
        LET lowered == [k \in 1..Len(tiers) |->
                           [adjust.before[k] EXCEPT !.minStars = tiers[k].minStars,
                                                    !.maxStars = tiers[k].maxStars]]
            S == SumShortfall(lowered)
        IN  /\ tiers[1].minStars = 15000
            /\ tiers[1].query = "language:javascript stars:>=15000"
            /\ tiers[2].maxStars = {14999}
            /\ tiers[2].query = "language:javascript stars:10000..14999"
            /\ \A k \in Targeted : 2 * Increase(k) >= S /\ 2 * Increase(k) <= S + 1
            /\ \A k \in (1..Len(tiers)) \ Targeted : Increase(k) = 0
            /\ adjust.adjustmentReason =
                  <<"mixed strategy: ",
                    "ultra-high tier threshold lowered 20,000 -> 15,000 to widen the collection range",
                    ", in addition ",
                    "lower tiers compensate ", ToString(S), " (high, good targets raised)">>

C17_Witness ==
    /\ adjust.called
    /\ adjust.strategy = "mixed"
    /\ adjust.before[1].minStars = 20000
    /\ SumShortfall(adjust.before) = 101

\* C18: from createInitialTiers, with any observed counts and after any
\* sequence of adjustTiers calls, the targets sum to at least 90% of the
\* global target (630 of 700), and no call lowers a tier's targetCount.
C18_TargetsNeverShrink ==
    /\ 10 * GetTotalTarget(tiers) >= 9 * 700
    /\ adjust.called => \A k \in 1..Len(tiers) : Increase(k) >= 0

C18_Witness ==
    /\ adjust.calls = 2
    /\ adjust.strategy = "mixed"
    /\ \E k \in Targeted : Increase(k) > 0
    /\ GetTotalTarget(tiers) > GetTotalTarget(adjust.before)
    /\ GetTotalTarget(adjust.before) > 700

\* C19: from createInitialTiers, after any sequence of adjustTiers calls the
\* lowest tier's minStars is at least the floor 1000, and
\* validateQualityStandards does not return false.
C19_FloorKept ==
    /\ \A k \in 1..Len(tiers) : tiers[k].minStars >= 1000
    /\ tiers[LowestBandTier(tiers)].minStars = tiers[Len(tiers)].minStars
    /\ verdict # <<FALSE>>

C19_Witness ==
    /\ verdict = <<TRUE>>
    /\ adjust.calls = 2
    /\ tiers[1].minStars = 15000
    /\ tiers[Len(tiers)].minStars = 1000

\* C20: validateQualityStandards returns false whenever the tier with the
\* lowest star band has minStars below 1000, whatever the targets and
\* whatever that tier's position in the collection.
C20_FloorWhateverPosition ==
    (/\ verdict # <<>>
     /\ Len(tiers) > 0
     /\ tiers[LowestBandTier(tiers)].minStars < 1000) =>
        verdict = <<FALSE>>

\* C21: validateQualityStandards returns false when the targets sum to less
\* than 630, true when no tier is below the floor 1000 and the sum is at
\* least 630, and the call modifies no tier; for the empty collection too.
C21_ValidateVerdict ==
    [][(verdict' # verdict /\ verdict' # <<>>) =>
          /\ tiers' = tiers
          /\ verdict' \in {<<TRUE>>, <<FALSE>>}
          /\ 10 * GetTotalTarget(tiers) < 6300 => verdict' = <<FALSE>>
          /\ (/\ \A k \in 1..Len(tiers) : tiers[k].minStars >= 1000
              /\ 10 * GetTotalTarget(tiers) >= 6300) => verdict' = <<TRUE>>]_vars

C21_Witness ==
    /\ verdict = <<TRUE>>
    /\ Len(tiers) = 2
    /\ GetTotalTarget(tiers) = 630
    /\ tiers[1].minStars = 1000
    /\ tiers[2].minStars = 1000

\* C22: adjustTiers, estimateAvailableCount and validateQualityStandards
\* return for every tier collection, the empty one and one lacking the tiers
\* 'ultra-high', 'very-high', 'high' or 'good' included: a missing tier is
\* skipped, and adjustTiers still returns a strategy's plan.
C22_NeverThrows ==
    /\ adjust.called =>
          /\ ~adjust.threw
          /\ adjust.strategy \in {"compensate-lower", "reduce-threshold", "mixed"}
          /\ adjust.adjustmentReason # <<>>
          /\ Len(adjust.adjustedTiers) = Len(tiers)
          /\ \A k \in 1..Len(tiers) :
                /\ tiers[k].id \notin {"high", "good"} => Increase(k) = 0
                /\ tiers[k].id \notin {"ultra-high", "very-high"} =>
                      Plan(tiers[k]) = [Plan(adjust.before[k]) EXCEPT
                                           !.targetCount = tiers[k].targetCount]
    /\ verdict \in {<<>>, <<TRUE>>, <<FALSE>>}
    /\ estimate # <<>> =>
          /\ estimate[1].value >= 0
          /\ estimate[1].value <= tiers[estimate[1].tier].targetCount

C22_Witness ==
    /\ adjust.called
    /\ adjust.strategy = "mixed"
    /\ Len(tiers) = 2
    /\ \A k \in 1..Len(tiers) : tiers[k].id = "extra"
    /\ verdict # <<>>
    /\ estimate # <<>>

\* C23: every createInitialTiers call returns the same four tiers, with
\* pairwise non-overlapping star bands, targets summing to 700 and observed
\* count 0, as fresh objects: nothing an earlier adjustTiers call or
\* collection wrote shows in them.
C23_InitialTiersFresh ==
    collected = 0 =>
        /\ Len(tiers) = 4
        /\ [k \in 1..4 |-> tiers[k].id] = <<"ultra-high", "very-high", "high", "good">>
        /\ [k \in 1..4 |-> tiers[k].minStars] = <<20000, 10000, 5000, 1000>>
        /\ [k \in 1..4 |-> tiers[k].maxStars] = <<{}, {19999}, {9999}, {4999}>>
        /\ [k \in 1..4 |-> tiers[k].targetCount] = <<100, 150, 250, 200>>
        /\ [k \in 1..4 |-> tiers[k].query] =
              <<"language:javascript stars:>=20000",
                "language:javascript stars:10000..19999",
                "language:javascript stars:5000..9999",
                "language:javascript stars:1000..4999">>
        /\ \A k \in 1..4 : tiers[k].actualCount = 0
        /\ \A j, k \in 1..4 :
              j < k => \A m \in tiers[k].maxStars :
                          tiers[k].minStars <= m /\ m < tiers[j].minStars
        /\ GetTotalTarget(tiers) = 700

C23_Witness ==
    /\ collected = 0
    /\ adjust.calls = 2
    /\ ~adjust.called

\* C24: estimateAvailableCount(tier) returns min(targetCount, cap), the cap
\* being 80 from 20000 stars, 200 from 10000, 400 from 5000 and none below;
\* the result never exceeds targetCount, does not grow with minStars for a
\* fixed targetCount, and the tier is not modified.
C24_EstimateCapped ==
    [][estimate' # estimate =>
          LET e == estimate'[1]
              t == tiers[e.tier]
              capped(c) == IF t.targetCount <= c THEN t.targetCount ELSE c
          IN  /\ tiers' = tiers
              /\ e.value = (IF t.minStars >= 20000 THEN capped(80)
                            ELSE IF t.minStars >= 10000 THEN capped(200)
                            ELSE IF t.minStars >= 5000 THEN capped(400)
                            ELSE t.targetCount)
              /\ e.value <= t.targetCount
              /\ estimate # <<>> =>
                    LET o == tiers[estimate[1].tier]
                    IN  (o.targetCount = t.targetCount /\ o.minStars <= t.minStars)
                            => e.value <= estimate[1].value]_vars

C24_Witness ==
    /\ estimate # <<>>
    /\ estimate[1].tier = 2
    /\ estimate[1].value = 80
    /\ tiers[2].minStars = 20000
    /\ tiers[2].targetCount = 401
    /\ tiers[1].minStars = 19999
    /\ tiers[1].targetCount = 401

(***************************************************************************)
(* Properties of PopularityFilter                                          *)
(***************************************************************************)
Known(c) == c.stars_count # {} /\ c.forks_count # {}

\* the sub-score of a count against its minimum, as the specification gives
\* it: 0 below the minimum, (count - min) / (9 * min) up to 10 * min, 1 from
\* there on
SubScore(count, min) ==
    IF count < min THEN Zero
    ELSE IF count >= 10 * min THEN One
    ELSE Rat(count - min, 9 * min)

MeanOfFour(c, crit) ==
    RatDiv(RatAdd(RatAdd(SubScore(Coalesce(c.stars_count, 0), crit.min_stars),
                         SubScore(Coalesce(c.forks_count, 0), crit.min_forks)),
                  RatAdd(IF c.archived THEN Zero ELSE One,
                         IF c.disabled THEN Zero ELSE One)), 4)

\* C25: the Popularity stage passes iff stars >= minStars, forks >= minForks,
\* the candidate is not archived when the criteria require that, and not
\* disabled when they require that; both bounds are inclusive.
C25_PopularityPasses ==
    (outcome # <<>> /\ Known(candidate)) =>
        (outcome[1].passed <=>
            /\ Coalesce(candidate.stars_count, 0) >= criteria.min_stars
            /\ Coalesce(candidate.forks_count, 0) >= criteria.min_forks
            /\ criteria.not_archived => ~candidate.archived
            /\ criteria.not_disabled => ~candidate.disabled)

C25_Witness ==
    /\ outcome # <<>>
    /\ outcome[1].passed
    /\ candidate.stars_count = {10}
    /\ candidate.forks_count = {10}
    /\ criteria.min_stars = 10
    /\ criteria.min_forks = 10
    /\ candidate.archived
    /\ ~criteria.not_archived

MeanWithStarSubScore(c, crit, o) ==
    /\ o.score = MeanOfFour(c, crit)
    /\ Coalesce(c.stars_count, 0) < crit.min_stars => ~o.passed
    /\ RatLeq(Zero, o.score) /\ RatLeq(o.score, One)

\* C27: the Popularity score is the mean of four sub-scores, the star
\* sub-score being 0 below minStars (where the stage fails whatever the
\* forks), (stars - minStars) / (9 * minStars) above it and 1 from
\* 10 * minStars on; with forks and flags fixed the score does not decrease
\* when the stars grow.
C27_StarScoreMonotone ==
    [][outcome' # outcome =>
          /\ MeanWithStarSubScore(candidate', criteria', outcome'[1])
          /\ (/\ outcome # <<>>
              /\ Coalesce(candidate.stars_count, 0) <= Coalesce(candidate'.stars_count, 0))
                => RatLeq(outcome[1].score, outcome'[1].score)]_vars

C27_Witness ==
    /\ outcome # <<>>
    /\ candidate.stars_count = {55}
    /\ candidate.forks_count = {10}
    /\ criteria.min_stars = 10
    /\ criteria.min_forks = 10
    /\ ~candidate.archived
    /\ ~candidate.disabled
    /\ outcome[1].score = Rat(5, 8)

(***************************************************************************)
(* Properties of FinalSelectionFilter                                      *)
(***************************************************************************)
\* a score in thousandths that lies in [0,1]
InUnitRange(score) == 0 <= score /\ score <= 1000

\* the positions of the candidate's assessments among those supplied
OwnPositions == {i \in 1..Len(assessments) : assessments[i].repository_id = candidate.id}

OwnFirst == assessments[CHOOSE i \in OwnPositions : \A j \in OwnPositions : i <= j]

\* C28: every score a stage produces and every score the pipeline records or
\* returns lies in [0,1], whatever the candidate, criteria and assessments.
C28_ScoresInUnitRange ==
    /\ outcome # <<>> => InUnitRange(outcome[1].score)
    /\ \A k \in 1..Len(results) : InUnitRange(results[k].score)
    /\ \A k \in 1..Len(sink) : InUnitRange(sink[k].score)

\* C29: without an assessment for the candidate the Final Selection stage
\* returns passed=false, score 0 and a 'no assessment' detail instead of
\* raising, and a pipeline run returns with that outcome recorded as failed,
\* not with the catch block's error entry.
C29_NoAssessmentFails ==
    OwnPositions = {} =>
        /\ outcome # <<>> =>
              outcome[1] = [kind |-> "result", passed |-> FALSE, score |-> 0,
                            details |-> [error |-> "No quality assessment found",
                                         repository_id |-> candidate.id]]
        /\ runState \in {"returned", "threw"} =>
              /\ runState = "returned"
              /\ Len(results) = 1
              /\ results[1] = [stage |-> "final_selection", passed |-> FALSE, score |-> 0,
                               details |-> [error |-> "No quality assessment found",
                                            repository_id |-> candidate.id]]
              /\ Len(sink) = 1
              /\ sink[1].status = "failed"
              /\ sink[1].score = 0

\* C30: with an assessment the Final Selection stage passes iff the overall
\* score is at least minOverallScore and the rank is present and at most
\* ceil(N * topPercentile / 100), N the number of assessments supplied; its
\* score is the assessment's overall score.
C30_FinalPasses ==
    (OwnPositions # {} /\ outcome # <<>>) =>
        /\ outcome[1].passed <=>
              /\ OwnFirst.overall_score >= criteria.min_overall_score
              /\ OwnFirst.overall_rank # {}
              /\ \A rank \in OwnFirst.overall_rank :
                    rank <= ExactCeil(Len(assessments) * criteria.top_percentile, 100)
        /\ outcome[1].score = OwnFirst.overall_score

(***************************************************************************)
(* Properties of ActivityFilter and QualityFilter                          *)
(***************************************************************************)
\* C31: a stage's evaluate is deterministic: evaluating the same candidate
\* against the same criteria again returns the same result, whenever the
\* two evaluations are made.
C31_Deterministic ==
    [][(/\ outcome # <<>>
        /\ outcome' # <<>>
        /\ candidate' = candidate
        /\ criteria' = criteria) => outcome' = outcome]_vars

\* whole days since a timestamp, rounded up; the maximum day count when it
\* is missing
DaysSince(timestamp, clock) ==
    IF timestamp = {} THEN MAX_SAFE_INTEGER
    ELSE LET t == CHOOSE v \in timestamp : TRUE
         IN  (clock - t + 1) \div 2

\* the sub-score of a day count against its limit
DaysSubScore(days, limit) ==
    IF days > limit THEN Zero
    ELSE IF limit = 0 THEN One
    ELSE Rat(limit - days, limit)

IssueSubScore(c) ==
    LET n == Coalesce(c.open_issues_count, 0)
    IN  IF n >= 50 THEN One ELSE Rat(n, 50)

\* what C32 says of one evaluation
ActivityAsClaimed(c, crit, clock, o) ==
    LET updated == DaysSince(c.updated_at, clock)
        pushed == DaysSince(c.pushed_at, clock)
    IN  /\ o.passed <=> (updated <= crit.recent_activity_days
                         /\ pushed <= crit.min_push_activity_days)
        /\ (c.updated_at = {} \/ c.pushed_at = {}) => ~o.passed
        /\ o.score = RatDiv(RatAdd(RatAdd(
                         IF c.pushed_at = {} THEN Zero
                         ELSE DaysSubScore(pushed, crit.min_push_activity_days),
                         IF c.updated_at = {} THEN Zero
                         ELSE DaysSubScore(updated, crit.recent_activity_days)),
                         IssueSubScore(c)), 3)

\* C32: the Activity stage passes iff days-since(last update) <=
\* recentActivityDays and days-since(last push) <= minPushActivityDays; a
\* missing timestamp counts as the maximum day count, fails the stage and has
\* sub-score 0; the contributor criterion plays no part.
C32_ActivityPasses ==
    [][(outcome = <<>> /\ outcome' # <<>>) =>
          ActivityAsClaimed(candidate', criteria', now', outcome'[1])]_vars

C32_Witness ==
    /\ outcome # <<>>
    /\ candidate.pushed_at = {}
    /\ candidate.updated_at = {4}
    /\ criteria.recent_activity_days = 2
    /\ criteria.min_contributors = 1000
    /\ outcome[1].details.last_push_days = MAX_SAFE_INTEGER
    /\ outcome[1].details.checks.recent_activity
    /\ ~outcome[1].passed

\* C33: the Quality stage passes iff the criteria do not require a license
\* or the candidate has one; description, homepage, topics, feature flags
\* and the readme criteria do not change the pass/fail result.
C33_QualityPasses ==
    outcome # <<>> =>
        (outcome[1].passed <=> (~criteria.has_license \/ candidate.license # {}))

C33_Witness ==
    /\ outcome # <<>>
    /\ ~outcome[1].passed
    /\ criteria.has_license
    /\ candidate.license = {}
    /\ candidate.description = {11}
    /\ candidate.homepage = {"https://example.org"}
    /\ candidate.topics = {7}
    /\ candidate.has_issues /\ candidate.has_projects /\ candidate.has_wiki
    /\ outcome[1].score = Rat(7, 10)

(***************************************************************************)
(* Further properties of AdaptiveTierManager and FilteringPipeline         *)
(***************************************************************************)
\* the star band a search predicate selects
QueryBand(query) ==
    CASE query = "language:javascript stars:>=20000" -> [min |-> 20000, max |-> {}]
      [] query = "language:javascript stars:>=15000" -> [min |-> 15000, max |-> {}]
      [] query = "language:javascript stars:10000..19999" -> [min |-> 10000, max |-> {19999}]
      [] query = "language:javascript stars:10000..14999" -> [min |-> 10000, max |-> {14999}]
      [] query = "language:javascript stars:5000..9999" -> [min |-> 5000, max |-> {9999}]
      [] query = "language:javascript stars:1000..4999" -> [min |-> 1000, max |-> {4999}]
      [] OTHER -> [min |-> 0, max |-> {0}]

\* band a lies wholly below band b
Below(a, b) == \E m \in a.maxStars : m < b.minStars

\* C34: from createInitialTiers, after any sequence of adjustTiers calls the
\* star bands are pairwise disjoint and cover every star count from 1000
\* upward without a gap, and each tier's query selects exactly its band.
C34_BandsPartition ==
    /\ \A k \in 1..Len(tiers) :
          QueryBand(tiers[k].query) = [min |-> tiers[k].minStars, max |-> tiers[k].maxStars]
    /\ \A h, k \in 1..Len(tiers) :
          h # k => Below(tiers[h], tiers[k]) \/ Below(tiers[k], tiers[h])
    /\ \E k \in 1..Len(tiers) : tiers[k].minStars = 1000
    /\ \E k \in 1..Len(tiers) : tiers[k].maxStars = {}
    /\ \A k \in 1..Len(tiers) :
          \A m \in tiers[k].maxStars :
              m >= tiers[k].minStars /\ \E h \in 1..Len(tiers) : tiers[h].minStars = m + 1

C34_Witness ==
    /\ adjust.calls = 2
    /\ adjust.before[1].minStars = 15000
    /\ tiers[1].query = "language:javascript stars:>=15000"
    /\ tiers[2].maxStars = {14999}
    /\ tiers[2].query = "language:javascript stars:10000..14999"

\* C35: with the observed counts fixed, repeated adjustTiers calls on the
\* same collection converge; in particular the total shortfall does not grow
\* from one call to the next.
C35_ShortfallNeverGrows ==
    [][(adjust.called /\ adjust'.calls = adjust.calls + 1) =>
          SumShortfall(tiers') <= SumShortfall(tiers)]_vars

\* number of entries of the list for a stage name
EntriesFor(list, name) == Cardinality({k \in 1..Len(list) : list[k].stage = name})

\* C36: the outcome list execute returns has no two entries for the same
\* stage: no more entries for a stage name than the pipeline holds stages of
\* that name.
C36_NoDuplicateEntries ==
    runState = "returned" =>
        \A id \in StageIds :
            EntriesFor(results, StageName(id))
                <= Cardinality({p \in 1..Len(stages) : stages[p].name = StageName(id)})

\* the fields of tier k an adjustTiers call changed
Changed(k) == {f \in DOMAIN tiers[k] : tiers[k][f] # adjust.before[k][f]}

\* the fields a strategy may write in a tier with this id
Writable(strategy, id) ==
    (IF strategy \in {"compensate-lower", "mixed"} /\ id \in {"high", "good"}
     THEN {"targetCount"} ELSE {})
    \cup (IF strategy \in {"reduce-threshold", "mixed"} /\ id = "ultra-high"
          THEN {"minStars", "query"} ELSE {})
    \cup (IF strategy \in {"reduce-threshold", "mixed"} /\ id = "very-high"
          THEN {"maxStars", "query"} ELSE {})

\* C37: compensate-lower changes only the targetCount of high and good,
\* reduce-threshold only the top tier's minStars and query and the adjacent
\* tier's maxStars and query; no adjustTiers call changes an actualCount, id
\* or name, or the number and order of the tiers.
C37_StrategiesWriteOwnFields ==
    adjust.called =>
        /\ Len(tiers) = Len(adjust.before)
        /\ \A k \in 1..Len(tiers) :
              /\ DOMAIN tiers[k] = DOMAIN adjust.before[k]
              /\ Changed(k) \subseteq Writable(adjust.strategy, tiers[k].id)
              /\ Changed(k) \cap {"id", "name", "actualCount"} = {}

C37_Witness ==
    /\ adjust.called
    /\ adjust.strategy = "mixed"
    /\ Changed(1) = {"minStars", "query"}
    /\ Changed(2) = {"maxStars", "query"}
    /\ Changed(3) = {"targetCount"}
    /\ Changed(4) = {"targetCount"}

C38_HandedRecordIsFresh ==
    \A h \in 1..Len(handed) :
        \A repository \in handed[h].repository :
            /\ repository.id = handed[h].githubRepo.id
            /\ repository.stars_count = {handed[h].githubRepo.stargazers_count}
            /\ repository.forks_count = {handed[h].githubRepo.forks_count}
            /\ repository.archived = handed[h].githubRepo.archived
            /\ repository.disabled = handed[h].githubRepo.disabled
            /\ repository.pushed_at = handed[h].githubRepo.pushed_at
            /\ repository.updated_at = {handed[h].githubRepo.updated_at}

====
